---------------------------- MODULE Spec2Model ----------------------------
(***************************************************************************)
(* Equipment-lending service (backend/app): the booking store, the         *)
(* equipment store, the request handlers that read and write them and the  *)
(* two scheduled jobs that advance booking and equipment status.           *)
(*                                                                         *)
(* Time is counted in clock ticks; one hour is Hour ticks, so that start   *)
(* instants that are not on the hour exist.  A datetime is a tick number.  *)
(***************************************************************************)
EXTENDS Integers, FiniteSets, Sequences, TLC

(***************************************************************************)
(* Bounds of the model.                                                    *)
(***************************************************************************)
\* ticks per hour (granularity of the clock)
Hour == 2
\* the clock runs from 0 to MaxTime ticks
MaxTime == 4
\* number of primary keys the booking table hands out
MaxBookings == 2

\* rows seeded into the booking table where a specification starts from an
\* arbitrary store, and the latest start instant of a seeded row
MaxSeed == 2
MaxStart == 1

(***************************************************************************)
(* Program constants.                                                      *)
(***************************************************************************)
\* schemas/booking.py: Field(..., ge=1, le=8)
MinDurationHours == 1
MaxDurationHours == 8
\* booking_auth.py: max_advance = now + timedelta(days=14)
MaxAdvanceDays == 14
HoursPerDay == 24

\* models/booking.py: class BookingStatus
ACTIVE == "active"
ONGOING == "ongoing"
COMPLETED == "completed"
CANCELLED == "cancelled"
BookingStatus == {ACTIVE, ONGOING, COMPLETED, CANCELLED}

\* models/equipment.py: class EquipmentStatus
AVAILABLE == "available"
BORROWED == "borrowed"
EquipmentStatus == {AVAILABLE, BORROWED}

\* models/user.py: class UserRole; the accounts of the model
ADMIN == "ADMIN"
USER == "USER"
Users == {"u1", "u2"}
Admins == {"root"}
Accounts == Users \cup Admins
role(u) == IF u \in Admins THEN ADMIN ELSE USER

\* primary keys of the equipment table; UnknownEquipment is a key no row has
EquipmentIds == {1, 2}
UnknownEquipment == 0
\* primary keys of the booking table; UnknownBooking is a key no row ever has
BookingIds == 1..MaxBookings
UnknownBooking == 0

\* Python's None
None == "None"

VARIABLES
    now,        \* the clock: datetime.now(timezone.utc)
    equipment,  \* equipment table: id -> row
    bookings,   \* bookings table: id -> row
    next_id,    \* the bookings primary-key sequence
    last,       \* the last call made and the response it got
    actual_conflicts,  \* the conflict list the last call built (its local variable)
    advancer,   \* where the scheduled sweep stands, and the tables before it began
    inflight    \* the requests being handled step by step: worker -> its locals

vars == <<now, equipment, bookings, next_id, last, actual_conflicts, advancer,
          inflight>>

(***************************************************************************)
(* Rows and time arithmetic.                                               *)
(***************************************************************************)
\* timedelta(hours=h), timedelta(days=d)
timedelta_hours(h) == h * Hour
timedelta_days(d) == d * HoursPerDay * Hour

\* models/booking.py: Booking(...) with status defaulting to ACTIVE
Booking(e, u, s, d, st) ==
    [equipment_id |-> e, user_id |-> u, booking_start_datetime |-> s,
     booking_duration_hours |-> d, status |-> st]

\* models/equipment.py: Equipment(...) with status defaulting to AVAILABLE
Equipment(st) == [status |-> st]

\* models/booking.py: Booking.booking_end_datetime is None unless the start
\* and the duration are both truthy (a datetime always is, 0 hours is not)
has_end_datetime(b) == b.booking_duration_hours # 0

\* models/booking.py: Booking.booking_end_datetime
booking_end_datetime(b) ==
    IF has_end_datetime(b)
    THEN b.booking_start_datetime + timedelta_hours(b.booking_duration_hours)
    ELSE None

\* a function with key k removed: db.delete(row)
Remove(f, k) == [x \in DOMAIN f \ {k} |-> f[x]]
\* a function with key k added: db.add(row)
Insert(f, k, v) == [x \in DOMAIN f \cup {k} |-> IF x = k THEN v ELSE f[x]]

\* the response of a handler: an HTTP status code, the error detail and the body
Response(op, who, arg, code, detail, body) ==
    [op |-> op, who |-> who, arg |-> arg, code |-> code, detail |-> detail, body |-> body]
NoCall == Response("none", None, <<>>, 0, "", <<>>)

\* no request is being handled step by step
NoRequests == <<>>


(***************************************************************************)
(* Request validation (schemas/booking.py, Query(...) declarations).       *)
(***************************************************************************)
\* mutant: the upper end of the range is forgotten
validate_duration_no_upper(v) == MinDurationHours <= v

\* BookingBase.validate_duration and Field(ge=1, le=8)
validate_duration(v) == MinDurationHours <= v /\ v <= MaxDurationHours

\* mutant: the schema has no validator of the start
validate_booking_window_absent(v, t) == None

\* mutant: a start equal to the clock counts as past
validate_booking_window_exclusive(v, t) ==
    IF v <= t THEN "Booking start time cannot be in the past"
    ELSE IF v > t + timedelta_days(MaxAdvanceDays)
         THEN "Bookings can only be made up to 2 weeks in advance"
         ELSE None

\* BookingBase.validate_booking_window: the error it raises, or None
validate_booking_window(v, t) ==
    IF v < t THEN "Booking start time cannot be in the past"
    ELSE IF v > t + timedelta_days(MaxAdvanceDays)
         THEN "Bookings can only be made up to 2 weeks in advance"
         ELSE None

(***************************************************************************)
(* Conflict detection, as each handler computes it.                        *)
(***************************************************************************)
\* mutant: the query forgets the status filter
availability_query_any_status(store, equipment_id, end_datetime) ==
    {id \in DOMAIN store :
        /\ store[id].equipment_id = equipment_id
        /\ store[id].booking_start_datetime < end_datetime}

\* routes/equipment.py check_equipment_availability: the query, then the loop
availability_query(store, equipment_id, end_datetime) ==
    {id \in DOMAIN store :
        /\ store[id].equipment_id = equipment_id
        /\ store[id].status = ACTIVE
        /\ store[id].booking_start_datetime < end_datetime}

availability_conflicts(store, equipment_id, start_datetime, end_datetime) ==
    {id \in availability_query(store, equipment_id, end_datetime) :
        store[id].booking_start_datetime
            + timedelta_hours(store[id].booking_duration_hours) > start_datetime}

\* routes/equipment_simple.py check_equipment_availability: the query, then the loop
simple_query(store, equipment_id) ==
    {id \in DOMAIN store :
        /\ store[id].equipment_id = equipment_id
        /\ store[id].status = ACTIVE}

simple_conflicts(store, equipment_id, start_datetime, end_datetime) ==
    {id \in simple_query(store, equipment_id) :
        LET booking_start == store[id].booking_start_datetime
            booking_end == booking_start
                + timedelta_hours(store[id].booking_duration_hours)
        IN  booking_start < end_datetime /\ booking_end > start_datetime}

\* mutant: the end of an existing booking is compared with >=
create_conflicts_closed(store, equipment_id, start_datetime, booking_end_time) ==
    {id \in DOMAIN store :
        /\ store[id].equipment_id = equipment_id
        /\ store[id].status = ACTIVE
        /\ store[id].booking_start_datetime < booking_end_time
        /\ store[id].booking_start_datetime
             + timedelta_hours(store[id].booking_duration_hours) >= start_datetime}

\* routes/booking_auth.py create_booking: the query, then the loop
create_query(store, equipment_id, booking_end_time) ==
    {id \in DOMAIN store :
        /\ store[id].equipment_id = equipment_id
        /\ store[id].status = ACTIVE
        /\ store[id].booking_start_datetime < booking_end_time}

create_conflicts(store, equipment_id, start_datetime, booking_end_time) ==
    {id \in create_query(store, equipment_id, booking_end_time) :
        LET existing_end == store[id].booking_start_datetime
                + timedelta_hours(store[id].booking_duration_hours)
        IN  existing_end > start_datetime}

(***************************************************************************)
(* GET /api/equipment/{equipment_id}/availability                          *)
(***************************************************************************)
\* mutant: the verdict looks at the conflicts alone
availability_verdict_no_status(conflicts, equipment_id) ==
    Cardinality(conflicts) = 0

\* routes/equipment.py: the verdict
availability_verdict(conflicts, equipment_id) ==
    Cardinality(conflicts) = 0 /\ equipment[equipment_id].status = AVAILABLE

\* mutant: the handler cancels the reservations it found in the way
check_equipment_availability_writing(equipment_id, start_datetime, duration_hours) ==
    LET op == "check_equipment_availability"
        arg == <<equipment_id, start_datetime, duration_hours>>
        end_datetime == start_datetime + timedelta_hours(duration_hours)
        conflicts == availability_conflicts(bookings, equipment_id,
                                            start_datetime, end_datetime)
    IN  /\ last' = Response(op, None, arg, 200, "",
                        [equipment_id |-> equipment_id,
                         start_datetime |-> start_datetime,
                         end_datetime |-> end_datetime,
                         is_available |-> Cardinality(conflicts) = 0,
                         conflicting_bookings |-> Cardinality(conflicts)])
        /\ actual_conflicts' = conflicts
        /\ bookings' = [id \in DOMAIN bookings |->
                           IF id \in conflicts
                           THEN [bookings[id] EXCEPT !.status = CANCELLED]
                           ELSE bookings[id]]
        /\ UNCHANGED <<now, equipment, next_id, advancer, inflight>>

\* routes/equipment.py check_equipment_availability
check_equipment_availability(equipment_id, start_datetime, duration_hours) ==
    LET op == "check_equipment_availability"
        arg == <<equipment_id, start_datetime, duration_hours>>
        end_datetime == start_datetime + timedelta_hours(duration_hours)
        conflicts == availability_conflicts(bookings, equipment_id,
                                            start_datetime, end_datetime)
    IN  /\ IF ~validate_duration(duration_hours)
           THEN /\ last' = Response(op, None, arg, 422, "duration_hours", <<>>)
                /\ actual_conflicts' = {}
           ELSE IF equipment_id \notin DOMAIN equipment
           THEN /\ last' = Response(op, None, arg, 404, "Equipment not found", <<>>)
                /\ actual_conflicts' = {}
           ELSE /\ last' = Response(op, None, arg, 200, "",
                        [equipment_id |-> equipment_id,
                         start_datetime |-> start_datetime,
                         end_datetime |-> end_datetime,
                         is_available |-> availability_verdict(conflicts, equipment_id),
                         conflicting_bookings |-> Cardinality(conflicts)])
                /\ actual_conflicts' = conflicts
        /\ UNCHANGED <<now, equipment, bookings, next_id, advancer, inflight>>

\* routes/equipment_simple.py: the verdict
simple_verdict(conflicts, equipment_id) ==
    Cardinality(conflicts) = 0 /\ equipment[equipment_id].status = AVAILABLE

\* routes/equipment_simple.py check_equipment_availability
check_equipment_availability_simple(equipment_id, start_datetime, end_datetime) ==
    LET op == "check_equipment_availability_simple"
        arg == <<equipment_id, start_datetime, end_datetime>>
        conflicts == simple_conflicts(bookings, equipment_id,
                                      start_datetime, end_datetime)
    IN  /\ IF equipment_id \notin DOMAIN equipment
           THEN /\ last' = Response(op, None, arg, 404, "Equipment not found", <<>>)
                /\ actual_conflicts' = {}
           ELSE /\ last' = Response(op, None, arg, 200, "",
                        [equipment_id |-> equipment_id,
                         start_datetime |-> start_datetime,
                         end_datetime |-> end_datetime,
                         is_available |-> simple_verdict(conflicts, equipment_id),
                         conflicting_bookings |-> Cardinality(conflicts)])
                /\ actual_conflicts' = conflicts
        /\ UNCHANGED <<now, equipment, bookings, next_id, advancer, inflight>>

(***************************************************************************)
(* POST /api/bookings/ (routes/booking_auth.py create_booking).            *)
(***************************************************************************)
\* mutant: the handler forgets to turn admins away
create_booking_prechecks_any_role(equip, u, e, s, d, t0, t1) ==
    IF validate_booking_window(s, t0) # None
    THEN [code |-> 422, detail |-> validate_booking_window(s, t0)]
    ELSE IF ~validate_duration(d)
    THEN [code |-> 422, detail |-> "Booking duration must be between 1 and 8 hours"]
    ELSE IF e \notin DOMAIN equip
    THEN [code |-> 404, detail |-> "Equipment not found"]
    ELSE IF equip[e].status # AVAILABLE
    THEN [code |-> 400, detail |-> "Equipment is not available"]
    ELSE [code |-> 200, detail |-> ""]

\* the checks of create_booking that come before the conflict query, in the
\* order the request meets them: the BookingCreate validators at parse time
\* t0, then the handler body, whose clock is read at t1.  The result is the
\* error response, or code 200.  A 422 lists the errors of all the fields, in
\* the order the schema declares them (start before duration); detail is the
\* first of them.
create_booking_prechecks(equip, u, e, s, d, t0, t1) ==
    IF validate_booking_window(s, t0) # None
    THEN [code |-> 422, detail |-> validate_booking_window(s, t0)]
    ELSE IF ~validate_duration(d)
    THEN [code |-> 422, detail |-> "Booking duration must be between 1 and 8 hours"]
    ELSE IF role(u) = ADMIN
    THEN [code |-> 403, detail |-> "Admins cannot create bookings"]
    ELSE IF e \notin DOMAIN equip
    THEN [code |-> 404, detail |-> "Equipment not found"]
    ELSE IF equip[e].status # AVAILABLE
    THEN [code |-> 400, detail |-> "Equipment is not available"]
    ELSE IF s < t1
    THEN [code |-> 400, detail |-> "Booking start time cannot be in the past"]
    ELSE IF s > t1 + timedelta_days(MaxAdvanceDays)
    THEN [code |-> 400, detail |-> "Bookings can only be made up to 2 weeks in advance"]
    ELSE [code |-> 200, detail |-> ""]

\* mutant: the conflict list is not looked at
create_booking_verdict_ignored(conflicts) == [code |-> 200, detail |-> ""]

\* the verdict on the conflict list
create_booking_verdict(conflicts) ==
    IF conflicts # {}
    THEN [code |-> 400, detail |-> "Equipment is not available for the selected time slot"]
    ELSE [code |-> 200, detail |-> ""]

\* all the checks of create_booking
create_booking_checks(store, equip, u, e, s, d, t0, t1) ==
    IF create_booking_prechecks(equip, u, e, s, d, t0, t1).code # 200
    THEN create_booking_prechecks(equip, u, e, s, d, t0, t1)
    ELSE create_booking_verdict(create_conflicts(store, e, s, s + timedelta_hours(d)))

\* the conflict list the handler has built when it returns ({} when it
\* returned before the conflict query)
create_conflict_list(store, equip, u, e, s, d, t0, t1) ==
    IF create_booking_checks(store, equip, u, e, s, d, t0, t1).detail
         \in {"", "Equipment is not available for the selected time slot"}
    THEN create_conflicts(store, e, s, s + timedelta_hours(d))
    ELSE {}

\* mutant: the row is built with another default status
db_booking_ongoing(u, e, s, d) == Booking(e, u, s, d, ONGOING)

\* create_booking: the row it builds, owned by the current user, its status
\* left to the column default
db_booking(u, e, s, d) == Booking(e, u, s, d, ACTIVE)

\* create_booking, executed without interleaving
create_booking(u, e, s, d) ==
    LET op == "create_booking"
        arg == <<e, s, d>>
        r == create_booking_checks(bookings, equipment, u, e, s, d, now, now)
    IN  /\ actual_conflicts' = create_conflict_list(bookings, equipment, u, e, s, d, now, now)
        /\ IF r.code = 200
           THEN /\ bookings' = Insert(bookings, next_id, db_booking(u, e, s, d))
                /\ next_id' = next_id + 1
                /\ last' = Response(op, u, arg, 200, "", [id |-> next_id])
           ELSE /\ last' = Response(op, u, arg, r.code, r.detail, <<>>)
                /\ UNCHANGED <<bookings, next_id>>
        /\ UNCHANGED <<now, equipment, advancer, inflight>>

\* the statements of create_booking that talk to the database after the
\* checks, at which the storage can fail: db.commit() and db.refresh()
StoragePoints == {"commit", "refresh"}

\* mutant: a failed commit leaves the row in the table
create_booking_committed_always(fault) == TRUE

\* whether the row is in the table when the handler ends: db.commit() writes
\* it; when the commit raises, nothing of the request's transaction is kept
\* (get_db closes the session); db.refresh() comes after the commit
create_booking_committed(fault) == fault # "commit"

\* create_booking with a storage that fails at the statement fault ("none":
\* it does not fail).  The handler has no try: the exception leaves it and
\* the request is answered 500.
create_booking_storage(u, e, s, d, fault) ==
    LET op == "create_booking"
        arg == <<e, s, d>>
        r == create_booking_checks(bookings, equipment, u, e, s, d, now, now)
    IN  /\ actual_conflicts' = create_conflict_list(bookings, equipment, u, e, s, d, now, now)
        /\ IF r.code = 200 /\ create_booking_committed(fault)
           THEN /\ bookings' = Insert(bookings, next_id, db_booking(u, e, s, d))
                /\ next_id' = next_id + 1
           ELSE UNCHANGED <<bookings, next_id>>
        /\ last' = IF r.code # 200
                   THEN Response(op, u, arg, r.code, r.detail, <<>>)
                   ELSE IF fault \in StoragePoints
                   THEN Response(op, u, arg, 500, "Internal Server Error",
                                 [failed_at |-> fault])
                   ELSE Response(op, u, arg, 200, "", [id |-> next_id])
        /\ UNCHANGED <<now, equipment, advancer, inflight>>

(***************************************************************************)
(* POST /api/admin/bookings/ (routes/booking.py create_booking).           *)
(***************************************************************************)
\* require_admin, then the BookingCreate validators at instant t, then the
\* handler body, which refuses whatever the request
admin_create_booking_checks(u, s, d, t) ==
    IF role(u) # ADMIN
    THEN [code |-> 403, detail |-> "Not enough permissions"]
    ELSE IF validate_booking_window(s, t) # None
    THEN [code |-> 422, detail |-> validate_booking_window(s, t)]
    ELSE IF ~validate_duration(d)
    THEN [code |-> 422, detail |-> "Booking duration must be between 1 and 8 hours"]
    ELSE [code |-> 403,
          detail |-> "Admins cannot create bookings. Only users can create bookings."]

\* booking.py create_booking
admin_create_booking(u, e, s, d) ==
    LET r == admin_create_booking_checks(u, s, d, now)
    IN  /\ last' = Response("admin_create_booking", u, <<e, s, d>>,
                            r.code, r.detail, <<>>)
        /\ actual_conflicts' = {}
        /\ UNCHANGED <<now, equipment, bookings, next_id, advancer, inflight>>

(***************************************************************************)
(* create_booking, one database statement at a time, for requests handled  *)
(* concurrently.  Each request has its own session; a statement reads the  *)
(* rows committed when it runs.                                            *)
(***************************************************************************)
\* core/database.py is not part of the sources read here.  The handler takes
\* no row lock (its queries carry no with_for_update), and the engine is taken
\* to be created as the test suite creates its own, with no isolation_level:
\* the database's default, which is not serializable.
Serializable == FALSE

\* under a serializable engine the commit of a transaction fails when a row
\* its conflict query would have read was committed after the query ran
serialization_failure(store, snapshot, e, booking_end_time) ==
    /\ Serializable
    /\ create_query(store, e, booking_end_time) \ snapshot # {}

\* the locals of a request that has been received
Request(u, e, s, d) ==
    [pc |-> "received", user |-> u, equipment_id |-> e,
     start_datetime |-> s, duration_hours |-> d,
     actual_conflicts |-> {}, snapshot |-> {}, response |-> NoCall]

\* a create request arrives and is given to worker w
receive_create(w, u, e, s, d) ==
    /\ w \notin DOMAIN inflight
    /\ inflight' = Insert(inflight, w, Request(u, e, s, d))
    /\ UNCHANGED <<now, equipment, bookings, next_id, last, actual_conflicts, advancer>>

\* create_booking up to the conflict query: the role, the equipment row and
\* its status, the booking window
create_booking_read_equipment(w) ==
    /\ w \in DOMAIN inflight /\ inflight[w].pc = "received"
    /\ LET q == inflight[w]
           r == create_booking_prechecks(equipment, q.user, q.equipment_id,
                    q.start_datetime, q.duration_hours, now, now)
       IN  inflight' = [inflight EXCEPT ![w] =
               IF r.code = 200
               THEN [q EXCEPT !.pc = "validated"]
               ELSE [q EXCEPT !.pc = "done",
                       !.response = Response("create_booking", q.user,
                           <<q.equipment_id, q.start_datetime, q.duration_hours>>,
                           r.code, r.detail, <<>>)]]
    /\ UNCHANGED <<now, equipment, bookings, next_id, last, actual_conflicts, advancer>>

\* create_booking: the conflict query and the loop over its rows
create_booking_read_bookings(w) ==
    /\ w \in DOMAIN inflight /\ inflight[w].pc = "validated"
    /\ LET q == inflight[w]
       IN  inflight' = [inflight EXCEPT ![w] =
               [q EXCEPT !.pc = "queried",
                         !.snapshot = DOMAIN bookings,
                         !.actual_conflicts =
                             create_conflicts(bookings, q.equipment_id,
                                 q.start_datetime,
                                 q.start_datetime + timedelta_hours(q.duration_hours))]]
    /\ UNCHANGED <<now, equipment, bookings, next_id, last, actual_conflicts, advancer>>

\* create_booking from the verdict on: the rejection, or db.add and db.commit
create_booking_write(w) ==
    /\ w \in DOMAIN inflight /\ inflight[w].pc = "queried"
    /\ LET q == inflight[w]
           arg == <<q.equipment_id, q.start_datetime, q.duration_hours>>
           r == create_booking_verdict(q.actual_conflicts)
           row == db_booking(q.user, q.equipment_id, q.start_datetime,
                             q.duration_hours)
       IN  IF r.code # 200
           THEN /\ inflight' = [inflight EXCEPT ![w] =
                       [q EXCEPT !.pc = "done",
                           !.response = Response("create_booking", q.user, arg,
                                                 r.code, r.detail, <<>>)]]
                /\ UNCHANGED <<bookings, next_id>>
           ELSE IF serialization_failure(bookings, q.snapshot, q.equipment_id,
                       q.start_datetime + timedelta_hours(q.duration_hours))
           THEN /\ inflight' = [inflight EXCEPT ![w] =
                       [q EXCEPT !.pc = "done",
                           !.response = Response("create_booking", q.user, arg,
                                                 500, "Internal Server Error", <<>>)]]
                /\ UNCHANGED <<bookings, next_id>>
           ELSE /\ bookings' = Insert(bookings, next_id, row)
                /\ next_id' = next_id + 1
                /\ inflight' = [inflight EXCEPT ![w] =
                       [q EXCEPT !.pc = "done",
                           !.response = Response("create_booking", q.user, arg,
                                                 200, "", [id |-> next_id])]]
    /\ UNCHANGED <<now, equipment, last, actual_conflicts, advancer>>

(***************************************************************************)
(* DELETE /api/bookings/{booking_id} (routes/booking_auth.py) and          *)
(* DELETE /api/admin/bookings/{booking_id} (routes/booking.py).            *)
(***************************************************************************)
\* mutant: the handler forgets the status test
cancel_booking_checks_any_status(store, u, booking_id) ==
    IF booking_id \notin DOMAIN store \/ store[booking_id].user_id # u
    THEN [code |-> 404, detail |-> "Booking not found"]
    ELSE [code |-> 200, detail |-> ""]

\* booking_auth.py cancel_booking: the row is looked up by id and owner
cancel_booking_checks(store, u, booking_id) ==
    IF booking_id \notin DOMAIN store \/ store[booking_id].user_id # u
    THEN [code |-> 404, detail |-> "Booking not found"]
    ELSE IF store[booking_id].status # ACTIVE
    THEN [code |-> 400, detail |-> "Only active bookings can be cancelled"]
    ELSE [code |-> 200, detail |-> ""]

\* booking_auth.py cancel_booking, executed without interleaving
cancel_booking(u, booking_id) ==
    LET r == cancel_booking_checks(bookings, u, booking_id)
    IN  /\ IF r.code = 200
           THEN bookings' = Remove(bookings, booking_id)
           ELSE UNCHANGED bookings
        /\ last' = Response("cancel_booking", u, <<booking_id>>, r.code, r.detail, <<>>)
        /\ actual_conflicts' = {}
        /\ UNCHANGED <<now, equipment, next_id, advancer, inflight>>

\* booking.py require_admin, then cancel_booking: the row is looked up by id
admin_cancel_booking_checks(store, u, booking_id) ==
    IF role(u) # ADMIN
    THEN [code |-> 403, detail |-> "Not enough permissions"]
    ELSE IF booking_id \notin DOMAIN store
    THEN [code |-> 404, detail |-> "Booking not found"]
    ELSE IF store[booking_id].status # ACTIVE
    THEN [code |-> 400, detail |-> "Only active bookings can be cancelled"]
    ELSE [code |-> 200, detail |-> ""]

\* booking.py cancel_booking, executed without interleaving
admin_cancel_booking(u, booking_id) ==
    LET r == admin_cancel_booking_checks(bookings, u, booking_id)
    IN  /\ IF r.code = 200
           THEN bookings' = Remove(bookings, booking_id)
           ELSE UNCHANGED bookings
        /\ last' = Response("admin_cancel_booking", u, <<booking_id>>,
                            r.code, r.detail, <<>>)
        /\ actual_conflicts' = {}
        /\ UNCHANGED <<now, equipment, next_id, advancer, inflight>>

(***************************************************************************)
(* The two cancel handlers step by step: the lookup and the status test,   *)
(* then db.delete and db.commit.  Other transactions may commit between    *)
(* the two steps.                                                          *)
(***************************************************************************)
\* the locals of a cancel request that has been received; op tells the router
CancelRequest(op, u, booking_id) ==
    [pc |-> "received", op |-> op, user |-> u, booking_id |-> booking_id,
     row |-> None, response |-> NoCall]

\* a cancel request arrives and is given to worker w
receive_cancel(w, op, u, booking_id) ==
    /\ w \notin DOMAIN inflight
    /\ inflight' = Insert(inflight, w, CancelRequest(op, u, booking_id))
    /\ UNCHANGED <<now, equipment, bookings, next_id, last, actual_conflicts, advancer>>

\* cancel_booking up to the status test: the row is loaded into the session
cancel_booking_read(w) ==
    /\ w \in DOMAIN inflight /\ inflight[w].pc = "received"
    /\ LET q == inflight[w]
           r == IF q.op = "cancel_booking"
                THEN cancel_booking_checks(bookings, q.user, q.booking_id)
                ELSE admin_cancel_booking_checks(bookings, q.user, q.booking_id)
       IN  inflight' = [inflight EXCEPT ![w] =
               IF r.code = 200
               THEN [q EXCEPT !.pc = "checked", !.row = bookings[q.booking_id]]
               ELSE [q EXCEPT !.pc = "done",
                       !.response = Response(q.op, q.user, <<q.booking_id>>,
                                             r.code, r.detail, <<>>)]]
    /\ UNCHANGED <<now, equipment, bookings, next_id, last, actual_conflicts, advancer>>

\* cancel_booking: db.delete(booking) and db.commit().  The DELETE names the
\* row by its primary key only; it fails when the row is gone, and under a
\* serializable engine when the row was changed since it was loaded.
cancel_booking_delete(w) ==
    /\ w \in DOMAIN inflight /\ inflight[w].pc = "checked"
    /\ LET q == inflight[w]
           failed == \/ q.booking_id \notin DOMAIN bookings
                     \/ Serializable /\ bookings[q.booking_id] # q.row
       IN  /\ bookings' = IF failed THEN bookings ELSE Remove(bookings, q.booking_id)
           /\ inflight' = [inflight EXCEPT ![w] =
                  [q EXCEPT !.pc = "done",
                      !.response =
                          IF failed
                          THEN Response(q.op, q.user, <<q.booking_id>>,
                                        500, "Internal Server Error", <<>>)
                          ELSE Response(q.op, q.user, <<q.booking_id>>,
                                        200, "", <<>>)]]
    /\ UNCHANGED <<now, equipment, next_id, last, actual_conflicts, advancer>>

(***************************************************************************)
(* PUT /api/admin/bookings/{booking_id} (routes/booking.py update_booking). *)
(* update_data is booking_update.dict(exclude_unset=True): a record of the *)
(* fields the request set.                                                 *)
(***************************************************************************)
\* require_admin, the BookingUpdate validators at instant t, then the lookup
update_booking_checks(store, u, booking_id, update_data, t) ==
    IF role(u) # ADMIN
    THEN [code |-> 403, detail |-> "Not enough permissions"]
    ELSE IF "booking_start_datetime" \in DOMAIN update_data
            /\ validate_booking_window(update_data.booking_start_datetime, t) # None
    THEN [code |-> 422,
          detail |-> validate_booking_window(update_data.booking_start_datetime, t)]
    ELSE IF "booking_duration_hours" \in DOMAIN update_data
            /\ ~validate_duration(update_data.booking_duration_hours)
    THEN [code |-> 422, detail |-> "Booking duration must be between 1 and 8 hours"]
    ELSE IF booking_id \notin DOMAIN store
    THEN [code |-> 404, detail |-> "Booking not found"]
    ELSE [code |-> 200, detail |-> ""]

\* for field, value in update_data.items(): setattr(booking, field, value)
setattr_all(row, update_data) ==
    [field \in DOMAIN row |->
        IF field \in DOMAIN update_data THEN update_data[field] ELSE row[field]]

\* booking.py update_booking, executed without interleaving
update_booking(u, booking_id, update_data) ==
    LET r == update_booking_checks(bookings, u, booking_id, update_data, now)
    IN  /\ IF r.code = 200
           THEN bookings' = [bookings EXCEPT
                                ![booking_id] = setattr_all(@, update_data)]
           ELSE UNCHANGED bookings
        /\ last' = Response("update_booking", u, <<booking_id, update_data>>,
                            r.code, r.detail, <<>>)
        /\ actual_conflicts' = {}
        /\ UNCHANGED <<now, equipment, next_id, advancer, inflight>>

(***************************************************************************)
(* The scheduled jobs (core/scheduler.py).                                 *)
(***************************************************************************)
\* core/database.py is not part of the sources read here: the session that
\* get_db() yields is taken to be configured as the test suite configures its
\* own, sessionmaker(autocommit=False, autoflush=False), so a query does not
\* see the status changes the same session has made and not yet committed.
Autoflush == FALSE

\* with_status(store, ids, st): the rows `ids` of store given status st
with_status(store, ids, st) ==
    [id \in DOMAIN store |->
        IF id \in ids THEN [store[id] EXCEPT !.status = st] ELSE store[id]]

\* mutant: the first query compares the start instant with <
active_due_strict(store, t) ==
    {id \in DOMAIN store :
        store[id].status = ACTIVE /\ store[id].booking_start_datetime < t}

\* mutant: the first query forgets the status filter
active_due_any_status(store, t) ==
    {id \in DOMAIN store : store[id].booking_start_datetime <= t}

\* update_booking_statuses: the rows of the first query
active_due(store, t) ==
    {id \in DOMAIN store :
        store[id].status = ACTIVE /\ store[id].booking_start_datetime <= t}

\* mutant: the second query forgets the status filter
ongoing_due_any_status(seen, t) ==
    {id \in DOMAIN seen :
        /\ has_end_datetime(seen[id])
        /\ booking_end_datetime(seen[id]) <= t}

\* update_booking_statuses: the rows of the second query, read from the table
\* `seen`, that pass the end-time test
ongoing_due(seen, t) ==
    {id \in DOMAIN seen :
        /\ seen[id].status = ONGOING
        /\ has_end_datetime(seen[id])
        /\ booking_end_datetime(seen[id]) <= t}

\* update_booking_statuses: the table it commits, run at instant t
swept_bookings(store, t) ==
    LET activated == with_status(store, active_due(store, t), ONGOING)
        seen == IF Autoflush THEN activated ELSE store
    IN  with_status(activated, ongoing_due(seen, t), COMPLETED)

\* mutant: the lookup of an ongoing booking forgets the status filter
has_ongoing_any_status(store, e) ==
    \E id \in DOMAIN store : store[id].equipment_id = e

\* update_equipment_availability: the per-equipment query for an ongoing booking
has_ongoing(store, e) ==
    \E id \in DOMAIN store :
        store[id].equipment_id = e /\ store[id].status = ONGOING

\* mutant: equipment is marked borrowed but never released
synced_equipment_borrow_only(equip, store) ==
    [e \in DOMAIN equip |->
        IF has_ongoing(store, e) /\ equip[e].status # BORROWED
        THEN [equip[e] EXCEPT !.status = BORROWED] ELSE equip[e]]

\* update_equipment_availability: the table it commits
synced_equipment(equip, store) ==
    [e \in DOMAIN equip |->
        IF has_ongoing(store, e)
        THEN IF equip[e].status # BORROWED
             THEN [equip[e] EXCEPT !.status = BORROWED] ELSE equip[e]
        ELSE IF equip[e].status # AVAILABLE
             THEN [equip[e] EXCEPT !.status = AVAILABLE] ELSE equip[e]]

\* scheduler job update_booking_statuses, run to its commit
update_booking_statuses ==
    /\ bookings' = swept_bookings(bookings, now)
    /\ UNCHANGED <<now, equipment, next_id, last, actual_conflicts, inflight>>

\* scheduler job update_equipment_availability, run to its commit
update_equipment_availability ==
    /\ equipment' = synced_equipment(equipment, bookings)
    /\ UNCHANGED <<now, bookings, next_id, last, actual_conflicts, inflight>>

\* the clock moves on by one tick
clock_tick ==
    /\ now < MaxTime
    /\ now' = now + 1
    /\ UNCHANGED <<equipment, bookings, next_id, last, actual_conflicts, inflight>>

\* The Lifecycle Advancer as one call: update_booking_statuses, then
\* update_equipment_availability.  advancer.pre holds the tables before the
\* call, advancer.second tells that the call before it completed at the same
\* instant with nothing in between.
Idle == [phase |-> "idle", second |-> FALSE,
         pre |-> [bookings |-> <<>>, equipment |-> <<>>]]

AdvanceBookings ==
    /\ advancer.phase \in {"idle", "done"}
    /\ update_booking_statuses
    /\ advancer' = [phase |-> "swept",
                    second |-> advancer.phase = "done",
                    pre |-> [bookings |-> bookings, equipment |-> equipment]]

AdvanceEquipment ==
    /\ advancer.phase = "swept"
    /\ update_equipment_availability
    /\ advancer' = [advancer EXCEPT !.phase = "done"]

AdvanceTick ==
    /\ advancer.phase # "swept"
    /\ clock_tick
    /\ advancer' = Idle

(***************************************************************************)
(* PUT /api/equipment/{equipment_id} (routes/equipment.py update_equipment)*)
(* with a body that sets the status, and PUT /api/admin/equipment/         *)
(* reset-status (routes/admin.py reset_equipment_status).  Neither looks   *)
(* at the bookings table.  The scheduler's record is left to the           *)
(* specification that uses these handlers.                                 *)
(***************************************************************************)
update_equipment_checks(equip, u, equipment_id) ==
    IF role(u) # ADMIN
    THEN [code |-> 403, detail |-> "Not enough permissions"]
    ELSE IF equipment_id \notin DOMAIN equip
    THEN [code |-> 404, detail |-> "Equipment not found"]
    ELSE [code |-> 200, detail |-> ""]

update_equipment(u, equipment_id, st) ==
    LET r == update_equipment_checks(equipment, u, equipment_id)
    IN  /\ IF r.code = 200
           THEN equipment' = [equipment EXCEPT ![equipment_id].status = st]
           ELSE UNCHANGED equipment
        /\ last' = Response("update_equipment", u, <<equipment_id, st>>,
                            r.code, r.detail, <<>>)
        /\ actual_conflicts' = {}
        /\ UNCHANGED <<now, bookings, next_id, inflight>>

reset_equipment_status(u) ==
    LET borrowed_count ==
            Cardinality({e \in DOMAIN equipment : equipment[e].status = BORROWED})
    IN  /\ IF role(u) = ADMIN /\ borrowed_count # 0
           THEN equipment' =
                    [e \in DOMAIN equipment |->
                        IF equipment[e].status = BORROWED
                        THEN [equipment[e] EXCEPT !.status = AVAILABLE]
                        ELSE equipment[e]]
           ELSE UNCHANGED equipment
        /\ last' = IF role(u) # ADMIN
                   THEN Response("reset_equipment_status", u, <<>>,
                                 403, "Not enough permissions", <<>>)
                   ELSE Response("reset_equipment_status", u, <<>>, 200, "",
                                 [deleted_count |-> borrowed_count])
        /\ actual_conflicts' = {}
        /\ UNCHANGED <<now, bookings, next_id, inflight>>

(***************************************************************************)
(* DELETE /api/equipment/{equipment_id} (routes/equipment.py               *)
(* delete_equipment) and DELETE /api/admin/cleanup/equipment               *)
(* (routes/admin.py clean_all_equipment).                                  *)
(***************************************************************************)
\* mutant: the engine does not check foreign keys
foreign_keys_ignored == FALSE

\* core/config.py database_url: the engine is PostgreSQL, which checks the
\* foreign key bookings.equipment_id -> equipment.id on every statement
foreign_keys_enforced == TRUE

\* some row of store references equipment e
referenced(store, e) == \E id \in DOMAIN store : store[id].equipment_id = e

\* delete_equipment: require_admin, the lookup, the count of Active bookings
delete_equipment_checks(equip, store, u, equipment_id) ==
    IF role(u) # ADMIN
    THEN [code |-> 403, detail |-> "Not enough permissions"]
    ELSE IF equipment_id \notin DOMAIN equip
    THEN [code |-> 404, detail |-> "Equipment not found"]
    ELSE IF \E id \in DOMAIN store :
               store[id].equipment_id = equipment_id /\ store[id].status = ACTIVE
    THEN [code |-> 400, detail |-> "Cannot delete equipment with active bookings"]
    ELSE [code |-> 200, detail |-> ""]

\* delete_equipment.  db.delete(db_equipment) first detaches the equipment's
\* bookings (Equipment.bookings has no delete cascade) by setting their
\* equipment_id to NULL; the column is nullable=False, so the commit raises
\* when a booking of any status references the equipment.
delete_equipment(u, equipment_id) ==
    LET r == delete_equipment_checks(equipment, bookings, u, equipment_id)
        failed == r.code = 200 /\ referenced(bookings, equipment_id)
    IN  /\ IF r.code = 200 /\ ~failed
           THEN equipment' = Remove(equipment, equipment_id)
           ELSE UNCHANGED equipment
        /\ last' = IF failed
                   THEN Response("delete_equipment", u, <<equipment_id>>,
                                 500, "Internal Server Error", <<>>)
                   ELSE Response("delete_equipment", u, <<equipment_id>>,
                                 r.code, r.detail, <<>>)
        /\ actual_conflicts' = {}
        /\ UNCHANGED <<now, bookings, next_id, advancer, inflight>>

\* clean_all_equipment: one DELETE of every equipment row, which the engine
\* refuses as a whole when a booking references one of them; the handler
\* rolls back and answers 500
clean_all_equipment(u) ==
    LET total_equipment == Cardinality(DOMAIN equipment)
        failed == /\ foreign_keys_enforced
                  /\ \E e \in DOMAIN equipment : referenced(bookings, e)
    IN  /\ IF role(u) = ADMIN /\ total_equipment # 0 /\ ~failed
           THEN equipment' = <<>>
           ELSE UNCHANGED equipment
        /\ last' = IF role(u) # ADMIN
                   THEN Response("clean_all_equipment", u, <<>>,
                                 403, "Not enough permissions", <<>>)
                   ELSE IF total_equipment = 0
                   THEN Response("clean_all_equipment", u, <<>>, 200, "",
                                 [deleted_count |-> 0])
                   ELSE IF failed
                   THEN Response("clean_all_equipment", u, <<>>,
                                 500, "Error cleaning equipment", <<>>)
                   ELSE Response("clean_all_equipment", u, <<>>, 200, "",
                                 [deleted_count |-> total_equipment])
        /\ actual_conflicts' = {}
        /\ UNCHANGED <<now, bookings, next_id, advancer, inflight>>

(***************************************************************************)
(* The scheduler (core/scheduler.py start_scheduler) and the executions of *)
(* its two jobs, each in a thread of the scheduler's pool.  An execution   *)
(* reads the tables when it starts and writes when it commits; any of its  *)
(* database calls may raise.                                               *)
(***************************************************************************)
JOB_BOOKINGS == "update_booking_statuses"
JOB_EQUIPMENT == "update_equipment_availability"
Jobs == {JOB_BOOKINGS, JOB_EQUIPMENT}

\* IntervalTrigger(minutes=30), in clock ticks (rounded up to a whole tick)
IntervalMinutes == 30
MinutesPerHour == 60
interval_ticks == (IntervalMinutes * Hour + MinutesPerHour - 1) \div MinutesPerHour

\* add_job is called without max_instances: the scheduler's default
max_instances == 1

\* the scheduler fires its jobs one interval after it was started and every
\* interval from then on
due(t) == t > 0 /\ t % interval_ticks = 0

\* the calls of a job that may raise
FaultPoints == {"acquire", "query", "commit", "rollback", "close"}

\* the faults of one execution: none, each call alone, and a failing call
\* followed by a failing rollback or close
Faults ==
    {{}} \cup {{f} : f \in FaultPoints \ {"rollback"}}
        \cup {{"query", "rollback"}, {"commit", "rollback"}, {"commit", "close"}}

\* try / except / finally of update_booking_statuses and of
\* update_equipment_availability: whether the execution committed, and
\* whether an exception left the function
job_outcome(faults) ==
    IF "acquire" \in faults
    THEN [committed |-> FALSE, raised |-> FALSE]
    ELSE IF faults \cap {"query", "commit"} # {}
    THEN [committed |-> FALSE,
          raised |-> faults \cap {"rollback", "close"} # {}]
    ELSE [committed |-> TRUE, raised |-> "close" \in faults]

\* the status changes an execution of job j holds when its queries have run:
\* row -> new status
job_writes(j, store, equip, t) ==
    IF j = JOB_BOOKINGS
    THEN [id \in {x \in DOMAIN store :
                    swept_bookings(store, t)[x].status # store[x].status} |->
             swept_bookings(store, t)[id].status]
    ELSE [e \in {x \in DOMAIN equip :
                    synced_equipment(equip, store)[x].status # equip[x].status} |->
             synced_equipment(equip, store)[e].status]

\* the statuses of the rows an execution is about to change, as it read them
job_reads(j, store, equip, t) ==
    IF j = JOB_BOOKINGS
    THEN [id \in DOMAIN job_writes(j, store, equip, t) |-> store[id].status]
    ELSE [e \in DOMAIN job_writes(j, store, equip, t) |-> equip[e].status]

\* db.commit(): the changed rows are written by primary key
apply_writes(table, writes) ==
    [k \in DOMAIN table |->
        IF k \in DOMAIN writes
        THEN [table[k] EXCEPT !.status = writes[k]] ELSE table[k]]

\* equipment e's status disagrees with "an Ongoing reservation references e"
disagrees(equip, store, e) ==
    (equip[e].status = BORROWED) # has_ongoing(store, e)

\* for how many clock ticks each equipment has disagreed without a break,
\* counted up to one more than the interval
aged(drift, equip, store, ticks) ==
    [e \in DOMAIN drift |->
        IF ~disagrees(equip, store, e) THEN 0
        ELSE IF drift[e] + ticks > interval_ticks
        THEN interval_ticks + 1 ELSE drift[e] + ticks]

\* the scheduler before its first firing.  tick is the instant of the last
\* firing, pre the tables at that instant, ran what became of the two
\* executions of that firing; lapse tells that since the last execution of
\* update_equipment_availability that started and committed within one
\* instant, one was skipped, failed or was still running as the clock moved.
Started ==
    [tick |-> 0,
     pre |-> [bookings |-> <<>>, equipment |-> <<>>],
     ran |-> [j \in Jobs |-> "none"],
     drift |-> [e \in EquipmentIds |-> 0],
     lapse |-> FALSE]

\* the executions of job j that are running
instances(j) == {x \in DOMAIN inflight : x[1] = j}

\* mutant: the scheduler starts an execution whatever is running
may_submit_always(j) == TRUE

\* the executor refuses a job that has max_instances executions running
may_submit(j) == Cardinality(instances(j)) < max_instances

\* the scheduler wakes at a due instant and hands every job to its pool
scheduler_fire ==
    /\ due(now) /\ advancer.tick # now
    /\ inflight' =
          [x \in DOMAIN inflight \cup {<<j, now>> : j \in {k \in Jobs : may_submit(k)}} |->
              IF x \in DOMAIN inflight THEN inflight[x]
              ELSE [pc |-> "submitted", writes |-> <<>>, reads |-> <<>>]]
    /\ advancer' =
          [advancer EXCEPT
              !.tick = now,
              !.pre = [bookings |-> bookings, equipment |-> equipment],
              !.ran = [j \in Jobs |->
                          IF may_submit(j) THEN "submitted" ELSE "skipped"],
              !.lapse = advancer.lapse \/ ~may_submit(JOB_EQUIPMENT)]
    /\ UNCHANGED <<now, equipment, bookings, next_id, last, actual_conflicts>>

\* a pool thread begins the execution x: the session, the clock, the queries
job_start(x) ==
    /\ x \in DOMAIN inflight /\ inflight[x].pc = "submitted"
    /\ inflight' = [inflight EXCEPT ![x] =
          [pc |-> "running",
           writes |-> job_writes(x[1], bookings, equipment, now),
           reads |-> job_reads(x[1], bookings, equipment, now)]]
    /\ UNCHANGED <<now, equipment, bookings, next_id, last, actual_conflicts, advancer>>

\* the execution x ends: db.commit(), or the except clause, then finally
job_finish(x, faults) ==
    /\ x \in DOMAIN inflight /\ inflight[x].pc = "running"
    /\ LET o == job_outcome(faults)
           store == IF o.committed /\ x[1] = JOB_BOOKINGS
                    THEN apply_writes(bookings, inflight[x].writes) ELSE bookings
           equip == IF o.committed /\ x[1] = JOB_EQUIPMENT
                    THEN apply_writes(equipment, inflight[x].writes) ELSE equipment
       IN  /\ bookings' = store
           /\ equipment' = equip
           /\ last' = Response(x[1], None, <<x[2]>>, 0,
                               IF o.raised THEN "raised" ELSE "returned",
                               [committed |-> o.committed])
           /\ advancer' =
                 [advancer EXCEPT
                     !.ran = IF x[2] = advancer.tick
                             THEN [@ EXCEPT ![x[1]] =
                                     IF o.committed THEN "committed" ELSE "failed"]
                             ELSE @,
                     !.drift = aged(@, equip, store, 0),
                     !.lapse = IF x[1] # JOB_EQUIPMENT THEN @
                               ELSE ~(o.committed /\ x[2] = now)]
    /\ inflight' = Remove(inflight, x)
    /\ UNCHANGED <<now, next_id, actual_conflicts>>

\* the clock moves on by one tick; the scheduler does not sleep through a
\* due instant
scheduler_tick ==
    /\ now < MaxTime
    /\ ~(due(now) /\ advancer.tick # now)
    /\ now' = now + 1
    /\ advancer' =
          [advancer EXCEPT
              !.drift = aged(@, equipment, bookings, 1),
              !.lapse = @ \/ instances(JOB_EQUIPMENT) # {}]
    /\ UNCHANGED <<equipment, bookings, next_id, last, actual_conflicts, inflight>>

(***************************************************************************)
(* Inputs.                                                                 *)
(***************************************************************************)
\* durations a request may carry: the two valid ones the model uses, and one
\* below and one above the valid range
ReqDurations == {MinDurationHours - 1, 1, 2, MaxDurationHours + 1}
SeedDurations == {1, 2}
ReqEquipment == EquipmentIds \cup {UnknownEquipment}

\* every row a booking table may hold, within the bounds
SeedRows ==
    {Booking(e, u, s, d, st) :
        e \in EquipmentIds, u \in {"u1"}, s \in 0..MaxStart,
        d \in SeedDurations, st \in BookingStatus}

\* rows are interchangeable under renaming of their ids, so a seeded table
\* lists its rows in nondecreasing RowKey order
StatusRank(st) ==
    CASE st = ACTIVE -> 0 [] st = ONGOING -> 1 [] st = COMPLETED -> 2 [] OTHER -> 3
RowKey(b) ==
    ((b.equipment_id * (MaxStart + 1) + b.booking_start_datetime) * 3
        + b.booking_duration_hours) * 4 + StatusRank(b.status)

\* every booking table of at most MaxSeed rows
SeedStores ==
    {f \in UNION {[1..n -> SeedRows] : n \in 0..MaxSeed} :
        \A i \in DOMAIN f : i = 1 \/ RowKey(f[i - 1]) <= RowKey(f[i])}

(***************************************************************************)
(* Spec: the service from an empty booking table.  Handlers and scheduled  *)
(* jobs run one at a time, each to its commit; the two scheduled jobs are  *)
(* separate jobs and run in any order.                                     *)
(***************************************************************************)
\* the equipment the requests of Spec are about
BookedEquipment == {1}
\* the start instant of a valid request, as an offset from now
StartOffsets == {0, 1}

\* create requests <<user, equipment_id, start, duration>> made at instant t:
\* the valid ones, and one for each check that rejects before the conflict
\* query
CreateRequests(t) ==
    {<<"u1", e, t + o, d>> : e \in BookedEquipment,
                             o \in StartOffsets, d \in SeedDurations}
    \cup {<<u, 1, t, 1>> : u \in Admins}
    \cup {<<"u1", UnknownEquipment, t, 1>>,
          <<"u1", 1, t - 1, 1>>,
          <<"u1", 1, t, MaxDurationHours + 1>>}

\* cancel requests <<user, booking_id>>: by the owner of the rows, by another
\* user and by an admin, about every row and about a row that does not exist
CancelRequests ==
    {<<u, id>> : u \in {"u1", "u2"}, id \in DOMAIN bookings \cup {UnknownBooking}}

\* admin cancel requests <<user, booking_id>>
AdminCancelRequests ==
    {<<u, id>> : u \in Admins, id \in DOMAIN bookings \cup {UnknownBooking}}
    \cup {<<"u1", id>> : id \in DOMAIN bookings}

\* the bodies of the update requests made at instant t that pass validation
UpdateBodies(t) ==
    {[status |-> st] : st \in BookingStatus}
    \cup {[booking_start_datetime |-> t + 1], [booking_duration_hours |-> 2]}

\* update requests <<user, booking_id, body>> made at instant t: every valid
\* body on every row by an admin, and one request for each way of being
\* rejected
UpdateRequests(t) ==
    {<<u, id, d>> : u \in Admins, id \in DOMAIN bookings, d \in UpdateBodies(t)}
    \cup {<<u, UnknownBooking, [status |-> ACTIVE]>> : u \in Admins}
    \cup {<<u, id, [booking_start_datetime |-> t - 1]>> :
              u \in Admins, id \in DOMAIN bookings}
    \cup {<<u, id, [booking_duration_hours |-> MaxDurationHours + 1]>> :
              u \in Admins, id \in DOMAIN bookings}
    \cup {<<"u1", id, [status |-> ACTIVE]>> : id \in DOMAIN bookings}

Init ==
    /\ now = 0
    /\ equipment = [e \in EquipmentIds |-> Equipment(AVAILABLE)]
    /\ bookings = <<>>
    /\ next_id = 1
    /\ last = NoCall
    /\ actual_conflicts = {}
    /\ advancer = Idle
    /\ inflight = NoRequests

UserCreate ==
    /\ next_id <= MaxBookings
    /\ \E r \in CreateRequests(now) : create_booking(r[1], r[2], r[3], r[4])

UserCancel == \E r \in CancelRequests : cancel_booking(r[1], r[2])

AdminCancel == \E r \in AdminCancelRequests : admin_cancel_booking(r[1], r[2])

AdminUpdate == \E r \in UpdateRequests(now) : update_booking(r[1], r[2], r[3])

JobBookings == update_booking_statuses /\ UNCHANGED advancer

JobEquipment == update_equipment_availability /\ UNCHANGED advancer

ClockTick == clock_tick /\ UNCHANGED advancer

Next ==
    \/ UserCreate \/ UserCancel \/ AdminCancel \/ AdminUpdate
    \/ JobBookings \/ JobEquipment \/ ClockTick

Spec == Init /\ [][Next]_vars

(***************************************************************************)
(* SpecAvail: one availability decision on an arbitrary store.  The three  *)
(* handlers that decide a conflict are each called once, about equipment 1 *)
(* or about an equipment id that does not exist; the seeded rows are on    *)
(* equipment 1 and 2.                                                      *)
(***************************************************************************)
AvailEquipment == {1, UnknownEquipment}
\* a call about a missing equipment is answered before its interval is read,
\* so one interval stands for all of them
AvailStarts(e) == IF e = UnknownEquipment THEN {0} ELSE 0..(MaxStart + 1)
AvailDurations(e) == IF e = UnknownEquipment THEN {1} ELSE SeedDurations
\* the end instants equipment_simple is asked about: before the start, the
\* start itself (an empty interval), and up to two hours later
AvailEnds(e, s) ==
    IF e = UnknownEquipment THEN {s + 1}
    ELSE {s - 1, s, s + 1, s + Hour, s + 2 * Hour}

InitAvail ==
    /\ now = 0
    /\ equipment \in [EquipmentIds -> {Equipment(st) : st \in EquipmentStatus}]
    /\ bookings \in SeedStores
    /\ next_id = Cardinality(DOMAIN bookings) + 1
    /\ last = NoCall
    /\ actual_conflicts = {}
    /\ advancer = Idle
    /\ inflight = NoRequests

AvailCheck ==
    /\ last = NoCall
    /\ \E e \in AvailEquipment :
          \E s \in AvailStarts(e), d \in AvailDurations(e) :
             check_equipment_availability(e, s, d)

AvailCheckSimple ==
    /\ last = NoCall
    /\ \E e \in AvailEquipment :
          \E s \in AvailStarts(e) :
             \E t \in AvailEnds(e, s) : check_equipment_availability_simple(e, s, t)

AvailCreate ==
    /\ last = NoCall
    /\ \E e \in AvailEquipment :
          \E s \in AvailStarts(e), d \in AvailDurations(e) :
             create_booking("u1", e, s, d)

NextAvail == AvailCheck \/ AvailCheckSimple \/ AvailCreate

SpecAvail == InitAvail /\ [][NextAvail]_vars

(***************************************************************************)
(* Properties of the availability decision.                                *)
(***************************************************************************)
\* the call in `last` got as far as building its conflict list
Decided ==
    \/ last.op \in {"check_equipment_availability",
                    "check_equipment_availability_simple"} /\ last.code = 200
    \/ last.op = "create_booking"
         /\ last.detail \in {"", "Equipment is not available for the selected time slot"}

\* the proposed interval of the call in `last`
ProposedStart == last.arg[2]
ProposedEnd ==
    IF last.op = "check_equipment_availability_simple"
    THEN last.arg[3]
    ELSE last.arg[2] + last.arg[3] * Hour

\* the rows the call in `last` had to consider: Active, on the requested
\* equipment, and in the table before the call
Candidates ==
    {id \in DOMAIN bookings :
        /\ bookings[id].equipment_id = last.arg[1]
        /\ bookings[id].status = ACTIVE
        /\ ~(last.op = "create_booking" /\ last.code = 200 /\ id = last.body.id)}

CandStart(id) == bookings[id].booking_start_datetime
CandEnd(id) == bookings[id].booking_start_datetime + bookings[id].booking_duration_hours * Hour

\* the half-open overlap test of the design
Overlaps(id) == CandStart(id) < ProposedEnd /\ CandEnd(id) > ProposedStart

Max(x, y) == IF x >= y THEN x ELSE y
Min(x, y) == IF x <= y THEN x ELSE y

\* C2: in create_booking and in both check_equipment_availability handlers an
\* Active reservation on the same equipment is treated as conflicting iff
\* cStart < pEnd and cEnd > pStart; back-to-back intervals do not conflict and
\* an overlap of positive length does.
C2_ConflictIffOverlap ==
    Decided =>
        \A id \in Candidates :
            /\ (id \in actual_conflicts) <=> Overlaps(id)
            /\ ((CandEnd(id) = ProposedStart \/ ProposedEnd = CandStart(id))
                    /\ ProposedStart < ProposedEnd)
                => (id \notin actual_conflicts)
            /\ (Max(CandStart(id), ProposedStart) < Min(CandEnd(id), ProposedEnd))
                => (id \in actual_conflicts)

\* a call met a back-to-back row, which it did not count, and an overlapping
\* row, which it did
C2_Witness ==
    /\ Decided
    /\ \E id1, id2 \in Candidates :
          /\ CandEnd(id1) = ProposedStart /\ id1 \notin actual_conflicts
          /\ CandStart(id2) < ProposedStart /\ CandEnd(id2) = ProposedStart + 1
          /\ id2 \in actual_conflicts

\* a check_equipment_availability call (either handler) that was answered
Checked ==
    /\ last.op \in {"check_equipment_availability",
                    "check_equipment_availability_simple"}
    /\ last.code = 200

\* the reservations that conflict with the proposal, by the design's rule
TrueConflicts == {id \in Candidates : Overlaps(id)}

\* C3: check_equipment_availability reports is_available = true iff the number
\* of conflicting reservations is 0 and the equipment's stored status is
\* Available; Borrowed equipment with zero conflicts is not available.
C3_AvailableIffNoConflictAndAvailable ==
    Checked =>
        /\ last.body.is_available
             <=> (Cardinality(TrueConflicts) = 0
                  /\ equipment[last.arg[1]].status = AVAILABLE)
        /\ equipment[last.arg[1]].status = BORROWED => ~last.body.is_available

\* Borrowed equipment with no conflicting reservation was reported not available
C3_Witness ==
    /\ last.op = "check_equipment_availability" /\ last.code = 200
    /\ equipment[last.arg[1]].status = BORROWED
    /\ Cardinality(TrueConflicts) = 0
    /\ ~last.body.is_available

\* C4: the conflict count returned equals the number of reservations that are
\* on the requested equipment, Active, and overlapping the proposed interval.
C4_ConflictCountExact ==
    Checked =>
        last.body.conflicting_bookings =
            Cardinality({id \in DOMAIN bookings :
                /\ bookings[id].equipment_id = last.arg[1]
                /\ bookings[id].status = ACTIVE
                /\ bookings[id].booking_start_datetime < ProposedEnd
                /\ booking_end_datetime(bookings[id]) > ProposedStart})

\* two Active rows on the requested equipment overlap the proposal and both
\* were counted
C4_Witness ==
    /\ Checked
    /\ last.body.conflicting_bookings = 2
    /\ Cardinality(TrueConflicts) = 2

(***************************************************************************)
(* SpecSweep: the Lifecycle Advancer (update_booking_statuses followed by  *)
(* update_equipment_availability) run again and again, as the clock moves  *)
(* on, from an arbitrary store: rows of any status, equipment status set   *)
(* by hand, rows deleted in bulk.                                          *)
(***************************************************************************)
InitSweep ==
    /\ now = 0
    /\ equipment \in [EquipmentIds -> {Equipment(st) : st \in EquipmentStatus}]
    /\ bookings \in SeedStores
    /\ next_id = Cardinality(DOMAIN bookings) + 1
    /\ last = NoCall
    /\ actual_conflicts = {}
    /\ advancer = Idle
    /\ inflight = NoRequests

NextSweep == AdvanceBookings \/ AdvanceEquipment \/ AdvanceTick

SpecSweep == InitSweep /\ [][NextSweep]_vars

\* an advance has completed and nothing has happened since
Advanced == advancer.phase = "done"

\* C5: after any call of the Lifecycle Advancer completes, from any state,
\* every equipment is Borrowed iff a reservation with status Ongoing
\* references it, and Available otherwise.
C5_EquipmentMatchesOngoing ==
    Advanced =>
        \A e \in DOMAIN equipment :
            /\ equipment[e].status = BORROWED
                 <=> \E id \in DOMAIN bookings :
                        bookings[id].equipment_id = e /\ bookings[id].status = ONGOING
            /\ equipment[e].status = AVAILABLE
                 <=> ~\E id \in DOMAIN bookings :
                        bookings[id].equipment_id = e /\ bookings[id].status = ONGOING

\* an advance repaired both kinds of drift: an equipment that was Borrowed with
\* no booking in the table, and one that was Available under an Ongoing booking
C5_Witness ==
    /\ Advanced
    /\ \E e1, e2 \in DOMAIN equipment :
          /\ advancer.pre.equipment[e1].status = BORROWED
          /\ ~\E id \in DOMAIN bookings : bookings[id].equipment_id = e1
          /\ equipment[e1].status = AVAILABLE
          /\ advancer.pre.equipment[e2].status = AVAILABLE
          /\ \E id \in DOMAIN bookings :
                /\ bookings[id].equipment_id = e2
                /\ advancer.pre.bookings[id].status = ONGOING
          /\ equipment[e2].status = BORROWED

\* a sweep of the reservations has run at instant `now`, on the table
\* advancer.pre.bookings
Swept == advancer.phase \in {"swept", "done"}

PreStatus(id) == advancer.pre.bookings[id].status
PreStart(id) == advancer.pre.bookings[id].booking_start_datetime
PreEnd(id) ==
    advancer.pre.bookings[id].booking_start_datetime
        + advancer.pre.bookings[id].booking_duration_hours * Hour

\* another reservation on the equipment of reservation id is Ongoing
OtherOngoing(id) ==
    \E o \in DOMAIN bookings :
        /\ o # id
        /\ bookings[o].equipment_id = bookings[id].equipment_id
        /\ bookings[o].status = ONGOING

\* C6: one sweep at time now moves every reservation that is Active with
\* start <= now to Ongoing and every reservation that is Ongoing with
\* start + duration <= now to Completed, both boundaries inclusive; a
\* reservation with start > now stays Active and an Ongoing one with end > now
\* stays Ongoing.  When the advance is complete, the equipment of a
\* reservation that started exactly at now is Borrowed, and the equipment of
\* one that ended exactly at now is Available unless another reservation on
\* it is Ongoing.
C6_SweepBoundariesInclusive ==
    /\ Swept =>
          \A id \in DOMAIN advancer.pre.bookings :
              /\ (PreStatus(id) = ACTIVE /\ PreStart(id) <= now)
                    => bookings[id].status = ONGOING
              /\ (PreStatus(id) = ONGOING /\ PreEnd(id) <= now)
                    => bookings[id].status = COMPLETED
              /\ (PreStatus(id) = ACTIVE /\ PreStart(id) > now)
                    => bookings[id].status = ACTIVE
              /\ (PreStatus(id) = ONGOING /\ PreEnd(id) > now)
                    => bookings[id].status = ONGOING
    /\ Advanced =>
          \A id \in DOMAIN advancer.pre.bookings :
              /\ (PreStatus(id) = ACTIVE /\ PreStart(id) = now)
                    => equipment[bookings[id].equipment_id].status = BORROWED
              /\ (PreStatus(id) = ONGOING /\ PreEnd(id) = now
                    /\ ~OtherOngoing(id))
                    => equipment[bookings[id].equipment_id].status = AVAILABLE

\* an advance exactly at the end instant of an Ongoing reservation completed it
\* and made its Borrowed equipment Available
C6_Witness ==
    /\ Advanced
    /\ \E id \in DOMAIN advancer.pre.bookings :
          /\ PreStatus(id) = ONGOING /\ PreEnd(id) = now
          /\ advancer.pre.equipment[bookings[id].equipment_id].status = BORROWED
          /\ bookings[id].status = COMPLETED
          /\ equipment[bookings[id].equipment_id].status = AVAILABLE

\* C7: calling the Lifecycle Advancer twice in succession with the same now
\* and nothing in between changes no reservation status and no equipment
\* status during the second call, for every starting state.
C7_SecondAdvanceChangesNothing ==
    Advanced /\ advancer.second =>
        /\ bookings = advancer.pre.bookings
        /\ equipment = advancer.pre.equipment

\* C8: under any sequence of sweeps with non-decreasing now a reservation's
\* committed status only ever stays, moves from Active to Ongoing, or moves
\* from Ongoing to Completed: never from Active directly to Completed, and a
\* Completed or Cancelled reservation is never changed.
C8_SweepLifecycleInOrder ==
    [][/\ DOMAIN bookings' = DOMAIN bookings
       /\ now' >= now
       /\ \A id \in DOMAIN bookings :
             \/ bookings'[id].status = bookings[id].status
             \/ bookings[id].status = ACTIVE /\ bookings'[id].status = ONGOING
             \/ bookings[id].status = ONGOING /\ bookings'[id].status = COMPLETED]_vars

\* a sweep met a reservation still Active after its end instant and committed
\* it as Ongoing
C8_Witness ==
    /\ Swept
    /\ \E id \in DOMAIN advancer.pre.bookings :
          /\ PreStatus(id) = ACTIVE /\ PreEnd(id) <= now
          /\ bookings[id].status = ONGOING

(***************************************************************************)
(* SpecRace: two create_booking requests handled concurrently, statement   *)
(* by statement, on a table of at most one row.                            *)
(***************************************************************************)
\* the two request-handling threads and the user each one serves
Workers == {"w1", "w2"}
WorkerUser(w) == IF w = "w1" THEN "u1" ELSE "u2"

\* the tables the race starts from
RaceStores == {f \in SeedStores : Len(f) <= 1}

\* the create requests of the race: every interval on either equipment
RaceStarts == 0..(MaxStart + 1)

InitRace ==
    /\ now = 0
    /\ equipment \in [EquipmentIds -> {Equipment(st) : st \in EquipmentStatus}]
    /\ bookings \in RaceStores
    /\ next_id = Cardinality(DOMAIN bookings) + 1
    /\ last = NoCall
    /\ actual_conflicts = {}
    /\ advancer = Idle
    /\ inflight = NoRequests

RaceReceive ==
    \E w \in Workers, e \in EquipmentIds, s \in RaceStarts, d \in SeedDurations :
        receive_create(w, WorkerUser(w), e, s, d)

RaceReadEquipment == \E w \in Workers : create_booking_read_equipment(w)

RaceReadBookings == \E w \in Workers : create_booking_read_bookings(w)

RaceWrite == \E w \in Workers : create_booking_write(w)

NextRace == RaceReceive \/ RaceReadEquipment \/ RaceReadBookings \/ RaceWrite

SpecRace == InitRace /\ [][NextRace]_vars

\* request w has been answered
Answered(w) == w \in DOMAIN inflight /\ inflight[w].pc = "done"
\* request w succeeded: its reservation is in the table
Succeeded(w) ==
    /\ Answered(w) /\ inflight[w].response.code = 200
    /\ inflight[w].response.body.id \in DOMAIN bookings
ReqStart(w) == inflight[w].start_datetime
ReqEnd(w) == inflight[w].start_datetime + inflight[w].duration_hours * Hour

\* C1: two concurrent create_booking requests for the same equipment whose
\* half-open intervals overlap never both succeed: in every interleaving of
\* their reads and writes at most one of the two reservations is in the table.
C1_OverlappingCreatesNeverBothSucceed ==
    \A w1, w2 \in Workers :
        (/\ w1 # w2
         /\ Answered(w1) /\ Answered(w2)
         /\ inflight[w1].equipment_id = inflight[w2].equipment_id
         /\ ReqStart(w1) < ReqEnd(w2) /\ ReqStart(w2) < ReqEnd(w1))
        => ~(Succeeded(w1) /\ Succeeded(w2))

(***************************************************************************)
(* Properties of the reservation lifecycle under every operation.          *)
(***************************************************************************)
\* C9: across every sequence of operations (user create and cancel, admin
\* update_booking, admin cancel, sweeps) a reservation never goes backward:
\* Ongoing never returns to Active, Completed is terminal, and the status,
\* start and duration of a Completed or Cancelled reservation are never
\* modified again.
C9_LifecycleNeverGoesBackward ==
    [][\A id \in DOMAIN bookings \cap DOMAIN bookings' :
          /\ bookings[id].status = ONGOING => bookings'[id].status # ACTIVE
          /\ bookings[id].status = COMPLETED => bookings'[id].status = COMPLETED
          /\ bookings[id].status \in {COMPLETED, CANCELLED} =>
                /\ bookings'[id].status = bookings[id].status
                /\ bookings'[id].booking_start_datetime
                      = bookings[id].booking_start_datetime
                /\ bookings'[id].booking_duration_hours
                      = bookings[id].booking_duration_hours]_vars

(***************************************************************************)
(* SpecCancel: cancel requests, by users and by admins, on an arbitrary    *)
(* store.                                                                  *)
(***************************************************************************)
InitCancel ==
    /\ now = 0
    /\ equipment \in {[e \in EquipmentIds |-> Equipment(st)] : st \in EquipmentStatus}
    /\ bookings \in SeedStores
    /\ next_id = Cardinality(DOMAIN bookings) + 1
    /\ last = NoCall
    /\ actual_conflicts = {}
    /\ advancer = Idle
    /\ inflight = NoRequests

NextCancel == UserCancel \/ AdminCancel

SpecCancel == InitCancel /\ [][NextCancel]_vars

CancelOps == {"cancel_booking", "admin_cancel_booking"}

\* C10: a cancel request, by the owner via /api/bookings or by an admin via
\* /api/admin/bookings, on an Active reservation removes the record from the
\* booking store; a cancel request on a reservation that is Ongoing,
\* Completed or Cancelled is rejected with an error and leaves the
\* reservation and every other record unchanged.
C10_CancelOnlyWhileActive ==
    [][(/\ last' # last
        /\ last'.op \in CancelOps
        /\ last'.arg[1] \in DOMAIN bookings) =>
          /\ (/\ bookings[last'.arg[1]].status = ACTIVE
               /\ \/ last'.op = "cancel_booking"
                        /\ last'.who = bookings[last'.arg[1]].user_id
                  \/ last'.op = "admin_cancel_booking" /\ last'.who \in Admins)
                => (/\ last'.code = 200
                    /\ bookings' = Remove(bookings, last'.arg[1]))
          /\ bookings[last'.arg[1]].status \in {ONGOING, COMPLETED, CANCELLED}
                => (/\ last'.code >= 400
                    /\ bookings' = bookings
                    /\ equipment' = equipment)]_vars

\* after a cancel request removed an Active reservation, a cancel request on
\* an Ongoing reservation was rejected and the reservation is still there
C10_Witness ==
    /\ last.op \in CancelOps /\ last.code = 400
    /\ last.arg[1] \in DOMAIN bookings
    /\ bookings[last.arg[1]].status = ONGOING
    /\ \E id \in 1..(next_id - 1) : id \notin DOMAIN bookings

(***************************************************************************)
(* SpecWrite: one request that writes reservation fields (create_booking   *)
(* on either router, update_booking) on an arbitrary store.                *)
(***************************************************************************)
\* start instants around the two ends of the booking window at instant t
WindowStarts(t) ==
    {t - 1, t, t + 1,
     t + timedelta_days(MaxAdvanceDays) - 1,
     t + timedelta_days(MaxAdvanceDays),
     t + timedelta_days(MaxAdvanceDays) + 1}

\* durations around the two ends of the valid range
EdgeDurations ==
    {MinDurationHours - 1, MinDurationHours, MaxDurationHours, MaxDurationHours + 1}

\* create requests <<user, equipment_id, start, duration>> made at instant t
WriteCreateRequests(t) ==
    {<<"u1", 1, s, 1>> : s \in WindowStarts(t)}
    \cup {<<"u1", 1, s, d>> : s \in t..(t + MaxStart + 1), d \in SeedDurations}
    \cup {<<"u1", 1, t, d>> : d \in EdgeDurations}
    \cup {<<"u1", UnknownEquipment, t, 1>>}
    \cup {<<u, 1, t, 1>> : u \in Admins}
    \cup {<<u, 1, t, MaxDurationHours + 1>> : u \in Admins}
    \cup {<<u, 1, t - 1, 1>> : u \in Admins}
    \cup {<<"u1", UnknownEquipment, t - 1, 1>>,
          <<"u1", 1, t - 1, MaxDurationHours + 1>>}

\* create requests made on the admin router
WriteAdminCreateRequests(t) ==
    {<<u, 1, t, 1>> : u \in Admins \cup {"u1"}}
    \cup {<<u, 1, t, MaxDurationHours + 1>> : u \in Admins}
    \cup {<<u, 1, t - 1, 1>> : u \in Admins}

\* update requests <<user, booking_id, body>> made at instant t
WriteUpdateRequests(t) ==
    {<<u, id, d>> : u \in Admins, id \in DOMAIN bookings \cup {UnknownBooking},
                    d \in UpdateBodies(t)
                        \cup {[booking_duration_hours |-> h] : h \in EdgeDurations}}
    \cup {<<"u1", id, [booking_duration_hours |-> 1]>> : id \in DOMAIN bookings}

InitWrite ==
    /\ now = 0
    /\ equipment \in {[e \in EquipmentIds |-> Equipment(st)] : st \in EquipmentStatus}
    /\ bookings \in SeedStores
    /\ next_id = Cardinality(DOMAIN bookings) + 1
    /\ last = NoCall
    /\ actual_conflicts = {}
    /\ advancer = Idle
    /\ inflight = NoRequests

WriteCreate ==
    /\ last = NoCall
    /\ \E r \in WriteCreateRequests(now) : create_booking(r[1], r[2], r[3], r[4])

WriteAdminCreate ==
    /\ last = NoCall
    /\ \E r \in WriteAdminCreateRequests(now) :
          admin_create_booking(r[1], r[2], r[3], r[4])

WriteUpdate ==
    /\ last = NoCall
    /\ \E r \in WriteUpdateRequests(now) : update_booking(r[1], r[2], r[3])

NextWrite == WriteCreate \/ WriteAdminCreate \/ WriteUpdate

SpecWrite == InitWrite /\ [][NextWrite]_vars

\* C11: create_booking rejects a start as in the past when start < now and as
\* too far in advance when start > now + 14 days, and passes the window check
\* for every start with now <= start <= now + 14 days, both ends included.
C11_BookingWindowInclusive ==
    [][(/\ last' # last
        /\ last'.op = "create_booking"
        /\ last'.arg[3] \in 1..8) =>
          /\ last'.arg[2] < now =>
                /\ last'.code >= 400
                /\ last'.detail = "Booking start time cannot be in the past"
                /\ bookings' = bookings
          /\ last'.arg[2] > now + 14 * 24 * Hour =>
                /\ last'.code >= 400
                /\ last'.detail = "Bookings can only be made up to 2 weeks in advance"
                /\ bookings' = bookings
          /\ (now <= last'.arg[2] /\ last'.arg[2] <= now + 14 * 24 * Hour) =>
                last'.detail \notin
                    {"Booking start time cannot be in the past",
                     "Bookings can only be made up to 2 weeks in advance"}]_vars

\* a booking that starts exactly 14 days after the clock was accepted
C11_Witness ==
    /\ last.op = "create_booking" /\ last.code = 200
    /\ last.arg[2] = now + 14 * 24 * Hour
    /\ last.body.id \in DOMAIN bookings

\* the call in last' is a create or an update that carries a duration
\* outside 1..8
BadDurationRequest ==
    \/ last'.op \in {"create_booking", "admin_create_booking"}
          /\ last'.arg[3] \notin 1..8
    \/ last'.op = "update_booking"
          /\ "booking_duration_hours" \in DOMAIN last'.arg[2]
          /\ last'.arg[2].booking_duration_hours \notin 1..8

\* C12: every reservation in the booking store has a duration between 1 and
\* 8 hours inclusive; create requests and admin update requests with a
\* duration outside that range are rejected as validation errors and change
\* nothing.
C12_DurationWithinRange ==
    [][/\ \A id \in DOMAIN bookings' :
             bookings'[id].booking_duration_hours \in 1..8
       /\ (last' # last /\ BadDurationRequest) =>
             /\ last'.code >= 400
             /\ (last'.op = "create_booking" \/ last'.who \in Admins)
                    => last'.code = 422
             /\ bookings' = bookings
             /\ equipment' = equipment]_vars

\* an admin update that asked for 9 hours on a stored reservation was refused
\* as a validation error
C12_Witness ==
    /\ last.op = "update_booking" /\ last.code = 422
    /\ last.arg[1] \in DOMAIN bookings
    /\ "booking_duration_hours" \in DOMAIN last.arg[2]
    /\ last.arg[2].booking_duration_hours = 9

\* C13: every successful create_booking adds exactly one reservation to the
\* booking store, with status Active, the requested equipment, start and
\* duration, and the requesting user as owner; no reservation enters the
\* store in a status other than Active.
C13_CreateAddsOneActive ==
    [][/\ (last' # last /\ last'.op = "create_booking" /\ last'.code = 200) =>
             \E id \in DOMAIN bookings' \ DOMAIN bookings :
                 /\ DOMAIN bookings' = DOMAIN bookings \cup {id}
                 /\ \A o \in DOMAIN bookings : bookings'[o] = bookings[o]
                 /\ bookings'[id].status = "active"
                 /\ bookings'[id].equipment_id = last'.arg[1]
                 /\ bookings'[id].booking_start_datetime = last'.arg[2]
                 /\ bookings'[id].booking_duration_hours = last'.arg[3]
                 /\ bookings'[id].user_id = last'.who
       /\ \A id \in DOMAIN bookings' \ DOMAIN bookings :
             bookings'[id].status = "active"]_vars

\* a create request succeeded on a table that already held two reservations
C13_Witness ==
    /\ last.op = "create_booking" /\ last.code = 200
    /\ Cardinality(DOMAIN bookings) = 3
    /\ bookings[last.body.id].status = ACTIVE
    /\ bookings[last.body.id].user_id = last.who

(***************************************************************************)
(* SpecAgree: on an arbitrary store a user asks check_equipment_availability *)
(* about an interval and then posts a create_booking for the same interval. *)
(***************************************************************************)
InitAgree ==
    /\ now = 0
    /\ equipment \in [EquipmentIds -> {Equipment(st) : st \in EquipmentStatus}]
    /\ bookings \in SeedStores
    /\ next_id = Cardinality(DOMAIN bookings) + 1
    /\ last = NoCall
    /\ actual_conflicts = {}
    /\ advancer = Idle
    /\ inflight = NoRequests

AgreeCheck ==
    /\ last = NoCall
    /\ \E e \in AvailEquipment :
          \E s \in AvailStarts(e), d \in AvailDurations(e) :
             check_equipment_availability(e, s, d)

AgreeCreate ==
    /\ last.op = "check_equipment_availability"
    /\ create_booking("u1", last.arg[1], last.arg[2], last.arg[3])

NextAgree == AgreeCheck \/ AgreeCreate

SpecAgree == InitAgree /\ [][NextAgree]_vars

\* C14: for a non-admin user, an existing equipment and a start inside the
\* booking window, create_booking succeeds iff check_equipment_availability
\* on the same store state, for the same equipment, start and duration,
\* reports is_available = true; otherwise create_booking is rejected with a
\* conflict error (overlapping interval, or equipment not Available).
C14_CreateAgreesWithAvailability ==
    [][(/\ last.op = "check_equipment_availability" /\ last.code = 200
        /\ last'.op = "create_booking" /\ last'.arg = last.arg
        /\ last'.who \in Users) =>
          /\ (last'.code = 200) <=> last.body.is_available
          /\ (last'.code # 200) =>
                /\ last'.code = 400
                /\ last'.detail \in
                      {"Equipment is not available",
                       "Equipment is not available for the selected time slot"}
                /\ bookings' = bookings]_vars

\* after the check reported Borrowed equipment with no overlapping reservation
\* as not available, the create for the same interval was refused
C14_Witness ==
    /\ last.op = "create_booking" /\ last.code = 400
    /\ last.detail = "Equipment is not available"
    /\ equipment[last.arg[1]].status = BORROWED
    /\ Cardinality(TrueConflicts) = 0

\* the call in last' is a create request made by an admin, on either router
AdminCreateRequest ==
    /\ last' # last
    /\ last'.op \in {"create_booking", "admin_create_booking"}
    /\ last'.who \in Admins

\* C18: every create request by a user with role admin, on either
\* POST /api/bookings or POST /api/admin/bookings, is rejected as forbidden in
\* every state and leaves the booking store unchanged.
C18_AdminCreateForbidden ==
    [][AdminCreateRequest => (last'.code = 403 /\ bookings' = bookings)]_vars

\* C18, amended: every create request by an admin, on either router, is
\* rejected and leaves the booking store unchanged; it is rejected as
\* forbidden when its body is valid (duration in 1..8, start inside the
\* booking window) and as a validation error otherwise.
C18_AdminCreateRejected ==
    [][AdminCreateRequest =>
          /\ bookings' = bookings
          /\ IF /\ last'.arg[3] \in 1..8
                /\ now <= last'.arg[2] /\ last'.arg[2] <= now + 14 * 24 * Hour
             THEN last'.code = 403
             ELSE last'.code = 422]_vars

\* an admin's create request on the user router, for a free interval on
\* Available equipment, was refused as forbidden
C18_Witness ==
    /\ last.op = "create_booking" /\ last.who \in Admins
    /\ last.code = 403
    /\ equipment[last.arg[1]].status = AVAILABLE
    /\ Cardinality(TrueConflicts) = 0

(***************************************************************************)
(* SpecJobs: the scheduler and the executions of its jobs, from an         *)
(* arbitrary store of at most one reservation, as the clock moves on.      *)
(***************************************************************************)
JobStores == {f \in SeedStores : Len(f) <= 1}

InitJobs ==
    /\ now = 0
    /\ equipment \in [EquipmentIds -> {Equipment(st) : st \in EquipmentStatus}]
    /\ bookings \in JobStores
    /\ next_id = Cardinality(DOMAIN bookings) + 1
    /\ last = NoCall
    /\ actual_conflicts = {}
    /\ advancer = Started
    /\ inflight = NoRequests

SchedulerFire == scheduler_fire

JobStart == \E x \in DOMAIN inflight : job_start(x)

JobFinish == \E x \in DOMAIN inflight, faults \in Faults : job_finish(x, faults)

SchedulerTick == scheduler_tick

NextJobs == SchedulerFire \/ JobStart \/ JobFinish \/ SchedulerTick

SpecJobs == InitJobs /\ [][NextJobs]_vars

(***************************************************************************)
(* SpecDrift: SpecJobs with an administrator who sets equipment statuses   *)
(* by hand at any moment.                                                  *)
(***************************************************************************)
\* the tables the hand-set statuses start from: every equipment in the same
\* status, at most one reservation, on the equipment the administrator sets
HandSetEquipment == {1}

InitDrift ==
    /\ InitJobs
    /\ equipment \in {[e \in EquipmentIds |-> Equipment(st)] : st \in EquipmentStatus}
    /\ \A id \in DOMAIN bookings : bookings[id].equipment_id \in HandSetEquipment

\* an administrator sets an equipment's status by hand
AdminSetStatus ==
    /\ \E e \in HandSetEquipment, st \in EquipmentStatus : update_equipment("root", e, st)
    /\ advancer' = [advancer EXCEPT !.drift = aged(@, equipment', bookings', 0)]

\* an administrator resets every borrowed equipment
AdminResetStatus ==
    /\ reset_equipment_status("root")
    /\ advancer' = [advancer EXCEPT !.drift = aged(@, equipment', bookings', 0)]

NextDrift == NextJobs \/ AdminSetStatus \/ AdminResetStatus

SpecDrift == InitDrift /\ [][NextDrift]_vars

\* C15: an advance is all-or-nothing.  When a job of a firing has failed, the
\* tables are as they were when the scheduler fired, and in no state has a
\* firing committed its reservation status changes without having committed
\* the equipment status changes that go with them.
C15_AdvanceAllOrNothing ==
    /\ (/\ \E j \in Jobs : advancer.ran[j] = "failed"
        /\ \A x \in DOMAIN inflight : x[2] # advancer.tick) =>
            /\ bookings = advancer.pre.bookings
            /\ equipment = advancer.pre.equipment
    /\ (/\ advancer.ran[JOB_BOOKINGS] = "committed"
        /\ bookings # advancer.pre.bookings) =>
            advancer.ran[JOB_EQUIPMENT] = "committed"

\* C16: no execution of a job lets an exception leave the function, whichever
\* of its calls (session, query, commit, rollback, close) raised.
C16_JobsNeverRaise ==
    last.op \in Jobs => last.detail # "raised"

C19_EquipmentSyncAfterBookingsCommit ==
    \A x \in DOMAIN inflight :
        (/\ x[1] = JOB_EQUIPMENT
         /\ x[2] = advancer.tick
         /\ inflight[x].pc = "running") =>
            advancer.ran[JOB_BOOKINGS] = "committed"

\* C20: two executions of the same job never run at the same time, and no
\* row an execution is about to change has been changed by another execution
\* since it was read: each transition is applied by one execution.
C20_NoDoubleProcessing ==
    /\ \A x, y \in DOMAIN inflight : x[1] = y[1] => x = y
    /\ \A x \in DOMAIN inflight :
          inflight[x].pc = "running" =>
              \A k \in DOMAIN inflight[x].writes :
                  inflight[x].reads[k] =
                      IF x[1] = JOB_BOOKINGS
                      THEN bookings[k].status ELSE equipment[k].status

\* the scheduler fired while an execution holding changes was still running,
\* and skipped that job
C20_Witness ==
    \E j \in Jobs :
        /\ advancer.ran[j] = "skipped"
        /\ \E x \in instances(j) :
              /\ inflight[x].pc = "running"
              /\ DOMAIN inflight[x].writes # {}

\* the two sub-steps of update_booking_statuses in the other order: the
\* Ongoing rows past their end are completed first, the Active rows past their
\* start are made Ongoing second, in the same session
swept_bookings_reversed(store, t) ==
    LET completed == with_status(store, ongoing_due(store, t), COMPLETED)
        seen == IF Autoflush THEN completed ELSE store
    IN  with_status(completed, active_due(seen, t), ONGOING)

\* C21: the order of the two sub-steps of a sweep does not matter: the table a
\* sweep commits is the table the two sub-steps in the other order would have
\* committed, also for a reservation still Active after its end instant.
C21_SubStepOrderIrrelevant ==
    Swept => bookings = swept_bookings_reversed(advancer.pre.bookings, now)

\* a sweep met a reservation still Active after its end instant and another
\* one Ongoing after its end instant
C21_Witness ==
    /\ Swept
    /\ \E a, o \in DOMAIN advancer.pre.bookings :
          /\ PreStatus(a) = ACTIVE /\ PreEnd(a) <= now
          /\ PreStatus(o) = ONGOING /\ PreEnd(o) <= now
          /\ bookings[a].status = ONGOING
          /\ bookings[o].status = COMPLETED

\* C22: window validation comes before conflict checking: a create request
\* whose start lies outside the booking window is rejected with the window
\* error ("in the past" or "too far in advance"), never with a conflict or an
\* equipment-not-available error, whatever the reservations in the table and
\* whatever the equipment's status; nothing is written.
C22_WindowBeforeConflict ==
    [][(/\ last' # last
        /\ last'.op = "create_booking"
        /\ (last'.arg[2] < now \/ last'.arg[2] > now + 14 * 24 * Hour)) =>
            /\ last'.code >= 400
            /\ last'.detail =
                  IF last'.arg[2] < now
                  THEN "Booking start time cannot be in the past"
                  ELSE "Bookings can only be made up to 2 weeks in advance"
            /\ bookings' = bookings
            /\ equipment' = equipment]_vars

\* a create with a start in the past, for an interval an Active reservation on
\* the same Borrowed equipment overlaps, was rejected with the window error
C22_Witness ==
    /\ last.op = "create_booking"
    /\ last.arg[2] < now
    /\ last.detail = "Booking start time cannot be in the past"
    /\ last.arg[1] \in DOMAIN equipment
    /\ equipment[last.arg[1]].status = BORROWED
    /\ \E id \in DOMAIN bookings :
          /\ bookings[id].equipment_id = last.arg[1]
          /\ bookings[id].status = ACTIVE
          /\ bookings[id].booking_start_datetime < last.arg[2] + last.arg[3] * Hour
          /\ last.arg[2] < bookings[id].booking_start_datetime
                            + bookings[id].booking_duration_hours * Hour

(***************************************************************************)
(* SpecLive: users create and cancel reservations while the clock moves on *)
(* and the scheduler keeps running both jobs.  The interval trigger fires  *)
(* each job again and again, so a job that has something to change is not  *)
(* put off for ever, and neither is the clock, up to MaxTime.              *)
(***************************************************************************)
\* the create requests of SpecLive: the valid ones
LiveCreateRequests(t) ==
    {<<"u1", e, t + o, d>> : e \in BookedEquipment,
                             o \in StartOffsets, d \in SeedDurations}

LiveCreate ==
    /\ next_id <= MaxBookings
    /\ \E r \in LiveCreateRequests(now) : create_booking(r[1], r[2], r[3], r[4])

\* the owner cancels a reservation
LiveCancel == \E id \in DOMAIN bookings : cancel_booking("u1", id)

NextLive == LiveCreate \/ LiveCancel \/ JobBookings \/ JobEquipment \/ ClockTick

SpecLive ==
    /\ Init /\ [][NextLive]_vars
    /\ WF_vars(JobBookings) /\ WF_vars(JobEquipment) /\ WF_vars(ClockTick)

\* reservation id is in the table with status st
HasStatus(id, st) == id \in DOMAIN bookings /\ bookings[id].status = st

\* C23: while the clock advances and the scheduler keeps running both jobs,
\* every reservation that was created and is not cancelled becomes Ongoing
\* and, once Ongoing, becomes Completed (for the reservations whose start,
\* respectively end, the clock reaches); and every equipment that is Borrowed
\* with no Ongoing reservation on it becomes Available again, unless a
\* reservation on it becomes Ongoing first.
C23_EventuallyCompleted ==
    /\ \A id \in 1..MaxBookings :
          (HasStatus(id, ACTIVE) /\ bookings[id].booking_start_datetime <= MaxTime)
              ~> (id \notin DOMAIN bookings \/ HasStatus(id, ONGOING))
    /\ \A id \in 1..MaxBookings :
          (HasStatus(id, ONGOING) /\ booking_end_datetime(bookings[id]) <= MaxTime)
              ~> HasStatus(id, COMPLETED)
    /\ \A e \in EquipmentIds :
          (equipment[e].status = BORROWED /\ ~has_ongoing(bookings, e))
              ~> (equipment[e].status = AVAILABLE \/ has_ongoing(bookings, e))

\* a created reservation has been completed by the sweeps and its equipment,
\* borrowed meanwhile, is available again
C23_Witness ==
    \E id \in DOMAIN bookings :
        /\ bookings[id].status = COMPLETED
        /\ booking_end_datetime(bookings[id]) <= now
        /\ equipment[bookings[id].equipment_id].status = AVAILABLE
        /\ ~has_ongoing(bookings, bookings[id].equipment_id)

\* the two availability handlers
CheckOps == {"check_equipment_availability", "check_equipment_availability_simple"}

\* the verdict and the conflict count a call of handler op with the arguments
\* arg returns in the current state
SecondCall(op, arg) ==
    IF op = "check_equipment_availability"
    THEN LET c == availability_conflicts(bookings, arg[1], arg[2],
                                         arg[2] + timedelta_hours(arg[3]))
         IN  <<availability_verdict(c, arg[1]), Cardinality(c)>>
    ELSE LET c == simple_conflicts(bookings, arg[1], arg[2], arg[3])
         IN  <<simple_verdict(c, arg[1]), Cardinality(c)>>

\* C24: check_equipment_availability (both handlers) has no side effects: the
\* booking store and the equipment store are the same before and after every
\* call, a call about an unknown equipment is answered not-found, and a second
\* call with the same inputs in the state the first one left returns the same
\* verdict and the same conflict count.
C24_CheckHasNoSideEffects ==
    [][(last' # last /\ last'.op \in CheckOps) =>
          /\ bookings' = bookings
          /\ equipment' = equipment
          /\ next_id' = next_id
          /\ last'.arg[1] \notin DOMAIN equipment => last'.code = 404
          /\ last'.code = 200 =>
                <<last'.body.is_available, last'.body.conflicting_bookings>>
                    = SecondCall(last.op, last.arg)']_vars

\* a call found a conflicting reservation and left it in the table
C24_Witness ==
    /\ Checked
    /\ last.op = "check_equipment_availability"
    /\ last.body.conflicting_bookings > 0
    /\ ~last.body.is_available
    /\ \E id \in DOMAIN bookings :
          bookings[id].status = ACTIVE /\ bookings[id].equipment_id = last.arg[1]

\* reservations a and b are on the same equipment and their half-open
\* intervals overlap
Clash(a, b) ==
    /\ a # b
    /\ bookings[a].equipment_id = bookings[b].equipment_id
    /\ bookings[a].booking_start_datetime < booking_end_datetime(bookings[b])
    /\ bookings[b].booking_start_datetime < booking_end_datetime(bookings[a])

\* C25: in every state reached by user creates, user cancels and sweeps,
\* executed one after the other, no two Active reservations on the same
\* equipment have overlapping half-open intervals.
C25_ActiveNeverOverlap ==
    \A a, b \in DOMAIN bookings :
        (bookings[a].status = ACTIVE /\ bookings[b].status = ACTIVE) => ~Clash(a, b)

\* a create for the interval that starts at the instant an Active reservation
\* on the same equipment ends has succeeded
C25_Witness ==
    /\ last.op = "create_booking" /\ last.code = 200
    /\ \E a, b \in DOMAIN bookings :
          /\ a # b
          /\ bookings[a].status = ACTIVE /\ bookings[b].status = ACTIVE
          /\ bookings[a].equipment_id = bookings[b].equipment_id
          /\ booking_end_datetime(bookings[a]) = bookings[b].booking_start_datetime
          /\ bookings[b].booking_start_datetime = last.arg[2]

\* C26: no equipment is lent twice at the same time: each equipment is
\* referenced by at most one Ongoing reservation, and no Active or Ongoing
\* reservation overlaps an Ongoing reservation on the same equipment.
C26_NeverLentTwice ==
    \A a, b \in DOMAIN bookings :
        (bookings[a].status = ONGOING /\ bookings[b].status \in {ACTIVE, ONGOING}) =>
            /\ ~Clash(a, b)
            /\ (/\ a # b
                /\ bookings[b].status = ONGOING) =>
                    bookings[a].equipment_id # bookings[b].equipment_id

\* no two Active reservations of table store on one equipment overlap
ActiveDisjoint(store) ==
    \A a, b \in DOMAIN store :
        (/\ a # b
         /\ store[a].status = ACTIVE /\ store[b].status = ACTIVE
         /\ store[a].equipment_id = store[b].equipment_id) =>
            ~(/\ store[a].booking_start_datetime < booking_end_datetime(store[b])
              /\ store[b].booking_start_datetime < booking_end_datetime(store[a]))

\* C27: update_booking preserves the non-overlap of the Active reservations on
\* one equipment, whatever it changes of a reservation's start, duration or
\* status.
C27_UpdateKeepsActiveDisjoint ==
    [][(/\ last' # last
        /\ last'.op = "update_booking"
        /\ ActiveDisjoint(bookings)) => ActiveDisjoint(bookings')]_vars

(***************************************************************************)
(* SpecCancelRace: one cancel request, handled step by step, while the     *)
(* scheduler's jobs run, on an arbitrary store of at most one reservation. *)
(***************************************************************************)
CancelRaceRequests ==
    {<<"cancel_booking", u>> : u \in Users} \cup {<<"admin_cancel_booking", u>> : u \in Admins}

CancelRaceReceive ==
    \E r \in CancelRaceRequests, id \in DOMAIN bookings :
        receive_cancel("w1", r[1], r[2], id)

CancelRaceRead == cancel_booking_read("w1")

CancelRaceDelete == cancel_booking_delete("w1")

NextCancelRace ==
    \/ CancelRaceReceive \/ CancelRaceRead \/ CancelRaceDelete
    \/ JobBookings \/ JobEquipment \/ ClockTick

SpecCancelRace == InitRace /\ [][NextCancelRace]_vars

\* C28: a cancel request that runs while a sweep runs never deletes a
\* reservation that has been committed as Ongoing: whatever the interleaving
\* of the cancel's status test and delete with the sweep's commit, a
\* reservation that is Ongoing in the table stays in the table.
C28_CancelNeverDeletesOngoing ==
    [][\A id \in DOMAIN bookings :
          bookings[id].status = ONGOING => id \in DOMAIN bookings']_vars

(***************************************************************************)
(* SpecEquip: administrators (and a user, who is turned away) delete       *)
(* equipment, one by one and in bulk, on an arbitrary store.               *)
(***************************************************************************)
EquipDelete ==
    \E u \in Admins \cup {"u1"}, e \in EquipmentIds \cup {UnknownEquipment} :
        delete_equipment(u, e)

EquipClean == \E u \in Admins \cup {"u1"} : clean_all_equipment(u)

NextEquip == EquipDelete \/ EquipClean

SpecEquip == InitSweep /\ [][NextEquip]_vars

\* C29: every reservation in the booking store references an equipment that
\* exists in the equipment store: neither delete_equipment nor the bulk
\* cleanup removes an equipment that a reservation still references.
C29_ReservationsReferenceEquipment ==
    \A id \in DOMAIN bookings : bookings[id].equipment_id \in DOMAIN equipment

\* an equipment without reservations was deleted while an Ongoing reservation
\* on another equipment stays in the table
C29_Witness ==
    /\ last.op = "delete_equipment" /\ last.code = 200
    /\ last.arg[1] \notin DOMAIN equipment
    /\ \E id \in DOMAIN bookings : bookings[id].status = ONGOING

(***************************************************************************)
(* SpecFail: a create request on an arbitrary store, with a storage that   *)
(* may fail, and the same request sent again after it was refused or       *)
(* failed.                                                                 *)
(***************************************************************************)
\* create requests <<user, equipment_id, start, duration>> made at instant t:
\* requests that pass the checks or meet a conflict, and one for each of the
\* other refusals
FailCreateRequests(t) ==
    {<<"u1", e, t + o, d>> : e \in BookedEquipment, o \in StartOffsets, d \in SeedDurations}
    \cup {<<u, 1, t, 1>> : u \in Admins}
    \cup {<<"u1", UnknownEquipment, t, 1>>,
          <<"u1", 1, t - 1, 1>>,
          <<"u1", 1, t + timedelta_days(MaxAdvanceDays) + 1, 1>>}

FailCreate ==
    /\ last = NoCall
    /\ \E r \in FailCreateRequests(now), f \in StoragePoints \cup {"none"} :
          create_booking_storage(r[1], r[2], r[3], r[4], f)

FailResubmit ==
    /\ last.op = "create_booking"
    /\ last.code >= 400
    /\ \E f \in StoragePoints \cup {"none"} :
          create_booking_storage(last.who, last.arg[1], last.arg[2], last.arg[3], f)

NextFail == FailCreate \/ FailResubmit

SpecFail == InitWrite /\ [][NextFail]_vars

\* the create was refused by one of its checks or failed at the commit
RejectedOrFailedAtCommit(r) ==
    /\ r.op = "create_booking"
    /\ r.code >= 400
    /\ r.body # [failed_at |-> "refresh"]

\* C30: a create_booking that is refused (admin requester, unknown equipment,
\* equipment not Available, start outside the window, conflicting interval)
\* or that fails at the commit leaves the bookings table and the equipment
\* table exactly as they were; and the same request sent again after a
\* refused or failed attempt writes a row only when the table holds no
\* reservation for that request yet, so there are never two of them.
C30_FailedCreateWritesNothing ==
    [][/\ RejectedOrFailedAtCommit(last')
          => bookings' = bookings /\ equipment' = equipment
       /\ (/\ last.op = "create_booking" /\ last.code >= 400
           /\ last'.op = "create_booking"
           /\ bookings' # bookings)
          => \A id \in DOMAIN bookings :
                bookings[id] # db_booking(last.who, last.arg[1], last.arg[2], last.arg[3])
      ]_vars

\* a create that had passed every check failed at the commit, on a table
\* that holds reservations
C30_Witness ==
    /\ last.op = "create_booking"
    /\ last.code = 500
    /\ last.body = [failed_at |-> "commit"]
    /\ bookings # <<>>

=============================================================================
